---- MODULE Spec2Model ----
(***************************************************************************)
(* Model of src/main.py: the UNFCCC submissions scraper.                   *)
(*                                                                         *)
(* The rendered site is an input: a sequence of pages, each a sequence of  *)
(* grid cells (one per call for submissions), each with four optional text *)
(* nodes and a sequence of sections, each with an entitytype attribute and *)
(* a sequence of file rows.  The browser session shows one page at a time; *)
(* the next-page control is present on every page but the last.            *)
(*                                                                         *)
(* Python values: None is the string None below, a list is a sequence, a   *)
(* dict with a fixed or growing key set is a function over its keys, and   *)
(* the insertion-ordered dict sub_dict["submissions"] is a sequence of     *)
(* [key, value] entries with distinct keys.                                *)
(***************************************************************************)
EXTENDS Integers, Sequences, FiniteSets, TLC

(***************************************************************************)
(* Bounds of the model.                                                    *)
(***************************************************************************)
MaxPages == 2      \* pages of a paginated source
MaxGrids == 2      \* grid cells on a page of a paginated source
MaxSections == 2   \* sections of a grid cell of a single-page source
MaxRows == 2       \* file rows of a section of a single-page source
MaxCalls == 3      \* exporter calls made on one aggregate by ExportSpec

(***************************************************************************)
(* Python values and the program's constants.                              *)
(***************************************************************************)
None == "<None>"
Absent == "<absent>"     \* a node or an attribute the DOM does not have
EmptyDict == [k \in {} |-> None]

Origin == "https://www4.unfccc.int"
ListingPath == "/sites/submissionsstaging/Pages/Home.aspx"
SUBMISSIONS_URL == Origin \o ListingPath

RELEVANT_ENTITY_TYPES ==
    {"IGO", "NAO", "NGO", "Elections Chairs and Coordinators", "Party", "UN",
     "Observer State"}

\* datetime.now().strftime(...): one reading of the clock per run
CollectedAt == "05-11-2026 10:00:00"

(***************************************************************************)
(* Sequences.                                                              *)
(***************************************************************************)
SeqsUpTo(S, n) == UNION {[1..k -> S] : k \in 0..n}

RECURSIVE Flatten(_)
Flatten(ss) == IF ss = <<>> THEN <<>> ELSE Head(ss) \o Flatten(Tail(ss))

(***************************************************************************)
(* The rendered DOM (the input).                                           *)
(***************************************************************************)
Row(name, entity, language, date, fileref) ==
    [filename |-> name, entity |-> entity, language |-> language,
     submissiondate |-> date, fileref |-> fileref]

Section(entitytype, rows) == [entitytype |-> entitytype, rows |-> rows]

Grid(issue, deadline, title, mandate, sections) ==
    [issue |-> issue, deadline |-> deadline, cfstitle |-> title,
     mandate |-> mandate, sections |-> sections]

FullRow == Row("views.pdf", "Chile", "English", "01/02/2020",
               "/sites/SubmissionsStaging/Documents/views.pdf")
BareRow == Row(Absent, Absent, Absent, Absent,
               "/sites/SubmissionsStaging/Documents/untitled.pdf")
MixedRow == Row("note.pdf", Absent, "French", Absent,
                "/sites/SubmissionsStaging/Documents/note.pdf")
NoRefRow == Row("draft.pdf", "Fiji", "English", "03/04/2021", Absent)

\* Single-page sources: every layout of sections and rows within the bounds.
\* The site groups the files of a call by entity type, so the sections of one
\* grid cell carry distinct entitytype values.
RichRows == {FullRow, BareRow}
Labels == {"Party", "NGO", "Internal", Absent}
RichSections ==
    {Section(l, rs) : l \in Labels, rs \in SeqsUpTo(RichRows, MaxRows)}
DistinctTypes(ss) ==
    \A i, j \in DOMAIN ss : ss[i].entitytype = ss[j].entitytype => i = j
RichGrids ==
    {Grid("SBI", "31 Mar 2020", "Views on X", "Decision 1/CP.25", ss) :
        ss \in {t \in SeqsUpTo(RichSections, MaxSections) : DistinctTypes(t)}}

\* Paginated sources: pages made of a few grid cells.
SmallGrids ==
    {Grid("SBSTA", "30 Jun 2021", "Call A", "Decision 2/CP.26",
          <<Section("Party", <<FullRow, MixedRow>>), Section("NGO", <<>>)>>),
     Grid(Absent, Absent, "Call B", Absent,
          <<Section(Absent, <<BareRow>>)>>),
     Grid("COP", Absent, "Call C", Absent,
          <<Section("UN", <<NoRefRow>>)>>)}
SmallPages == SeqsUpTo(SmallGrids, MaxGrids)

Sources ==
    (SeqsUpTo(SmallPages, MaxPages) \ {<<>>}) \cup {<< <<g>> >> : g \in RichGrids}

(***************************************************************************)
(* find_text_element, WebElement.get_attribute, str.replace.               *)
(***************************************************************************)
find_text_element(elem, node) ==
    IF elem[node] = Absent THEN None ELSE elem[node]

get_attribute(elem, name) ==
    IF elem[name] = Absent THEN None ELSE elem[name]

\* url is the address as the sequence of its parts; str.replace(old, new)
\* puts new for every part that is old and raises TypeError when new is None.
ReplaceRaises(new) == new = None

RECURSIVE Replace(_, _, _)
Replace(url, old, new) ==
    IF url = <<>> THEN ""
    ELSE (IF Head(url) = old THEN new ELSE Head(url)) \o Replace(Tail(url), old, new)

(***************************************************************************)
(* _parse_submissions.                                                     *)
(***************************************************************************)
Keys(d) == {d[i].key : i \in DOMAIN d}

\* d[k], for a key of d
DictGet(d, k) == d[CHOOSE i \in DOMAIN d : d[i].key = k].value

\* d[k] = v on an insertion-ordered dict: a key already there keeps its place
DictSet(d, k, v) ==
    IF k \in Keys(d)
    THEN [i \in DOMAIN d |-> IF d[i].key = k THEN [key |-> k, value |-> v] ELSE d[i]]
    ELSE Append(d, [key |-> k, value |-> v])

SubItem(submission, current_url) ==
    [submission_name |-> find_text_element(submission, "filename"),
     submission_entity |-> find_text_element(submission, "entity"),
     submission_language |-> find_text_element(submission, "language"),
     submission_date |-> find_text_element(submission, "submissiondate"),
     submission_url |->
        Replace(current_url, ListingPath, get_attribute(submission, "fileref"))]

SectionItems(submission_section, current_url) ==
    [i \in DOMAIN submission_section.rows |->
        SubItem(submission_section.rows[i], current_url)]

\* Fault injection: any labelled section is kept.
IsRelevantAnyLabel(entity_type) == entity_type # None

IsRelevant(entity_type) == entity_type \in RELEVANT_ENTITY_TYPES

\* Fault injection: the key is created only when a row is appended.
ParseSectionSkipEmpty(submissions, submission_section, current_url) ==
    LET entity_type == get_attribute(submission_section, "entitytype")
    IN  IF IsRelevant(entity_type) /\ submission_section.rows # <<>>
        THEN DictSet(submissions, entity_type,
                     SectionItems(submission_section, current_url))
        ELSE submissions

\* one turn of the loop over the sections: the key is set to [] and every
\* row found is appended to it
ParseSection(submissions, submission_section, current_url) ==
    LET entity_type == get_attribute(submission_section, "entitytype")
    IN  IF IsRelevant(entity_type)
        THEN DictSet(submissions, entity_type,
                     SectionItems(submission_section, current_url))
        ELSE submissions

RECURSIVE ParseSections(_, _, _)
ParseSections(submission_sections, current_url, submissions) ==
    IF submission_sections = <<>> THEN submissions
    ELSE ParseSections(
             Tail(submission_sections), current_url,
             ParseSection(submissions, Head(submission_sections), current_url))

ParseGrid(submission_grid, current_url) ==
    [issue |-> find_text_element(submission_grid, "issue"),
     deadline |-> find_text_element(submission_grid, "deadline"),
     title |-> find_text_element(submission_grid, "cfstitle"),
     mandate |-> find_text_element(submission_grid, "mandate"),
     submissions |-> ParseSections(submission_grid.sections, current_url, <<>>)]

\* the call raises TypeError at the first row of a kept section that has no
\* fileref attribute; nothing of the page is returned then
ParseRaises(submission_grids) ==
    \E g \in DOMAIN submission_grids :
      \E s \in DOMAIN submission_grids[g].sections :
        LET sec == submission_grids[g].sections[s] IN
          /\ IsRelevant(get_attribute(sec, "entitytype"))
          /\ \E r \in DOMAIN sec.rows :
               ReplaceRaises(get_attribute(sec.rows[r], "fileref"))

_parse_submissions(submission_grids, current_url) ==
    [g \in DOMAIN submission_grids |-> ParseGrid(submission_grids[g], current_url)]

(***************************************************************************)
(* parse_submissions: the aggregate it returns.                            *)
(***************************************************************************)
\* Fault injection: assignment in place of list.extend.
ExtendOverwrite(subs, more) == more

Extend(subs, more) == subs \o more

Aggregate(subs) ==
    [data_source |-> SUBMISSIONS_URL,
     collected_at |-> CollectedAt,
     submissions_data |-> subs]

(***************************************************************************)
(* write_to_csv.                                                           *)
(***************************************************************************)
\* {**a, **b}
Merge(a, b) ==
    [k \in DOMAIN a \cup DOMAIN b |-> IF k \in DOMAIN b THEN b[k] ELSE a[k]]

\* the dict left by d.pop(k)
Pop(d, k) == [j \in DOMAIN d \ {k} |-> d[j]]

\* submission_metadata["entity_type"] = submission_entity_type
SetEntityType(submission_metadata, submission_entity_type) ==
    [k \in DOMAIN submission_metadata \cup {"entity_type"} |->
        IF k = "entity_type" THEN submission_entity_type
        ELSE submission_metadata[k]]

\* Fault injection: one row per category, built from its first sub-item.
IssueRowsFirstOnly(issue, metadata) ==
    LET merged == Merge(issue, metadata)
        subs == merged["submissions"]
        rest == Pop(merged, "submissions")
    IN  Flatten([e \in DOMAIN subs |->
                   IF subs[e].value = <<>> THEN <<>>
                   ELSE <<Merge(SetEntityType(subs[e].value[1], subs[e].key), rest)>>])

\* Fault injection: an issue without sub-items is padded into a row of its own.
IssueRowsPadded(issue, metadata) ==
    LET merged == Merge(issue, metadata)
        subs == merged["submissions"]
        rest == Pop(merged, "submissions")
        rows == Flatten([e \in DOMAIN subs |->
                           [i \in DOMAIN subs[e].value |->
                              Merge(SetEntityType(subs[e].value[i], subs[e].key), rest)]])
    IN  IF rows = <<>> THEN <<rest>> ELSE rows

\* the rows the two inner loops append for one issue
IssueRows(issue, metadata) ==
    IF "submissions" \in DOMAIN issue
    THEN LET merged == Merge(issue, metadata)
             issue_specific_submissions == merged["submissions"]
             rest == Pop(merged, "submissions")
         IN  Flatten(
               [e \in DOMAIN issue_specific_submissions |->
                 [i \in DOMAIN issue_specific_submissions[e].value |->
                   Merge(SetEntityType(issue_specific_submissions[e].value[i],
                                       issue_specific_submissions[e].key),
                         rest)]])
    ELSE <<>>

\* the issue as the loops leave it: its sub-item dicts are updated in place
IssueAfter(issue) ==
    IF "submissions" \in DOMAIN issue
    THEN [issue EXCEPT !["submissions"] =
            [e \in DOMAIN @ |->
               [key |-> @[e].key,
                value |-> [i \in DOMAIN @[e].value |->
                             SetEntityType(@[e].value[i], @[e].key)]]]]
    ELSE issue

CsvRaises(submissions_data) == "submissions_data" \notin DOMAIN submissions_data

CsvRows(submissions_data) ==
    LET submissions_all == submissions_data["submissions_data"]
        metadata == Pop(submissions_data, "submissions_data")
    IN  Flatten([n \in DOMAIN submissions_all |->
                    IssueRows(submissions_all[n], metadata)])

CsvListAfter(submissions_all) ==
    [n \in DOMAIN submissions_all |-> IssueAfter(submissions_all[n])]

(***************************************************************************)
(* State.                                                                  *)
(***************************************************************************)
VARIABLES
    pc,              \* where main (or the exporter harness) stands
    source,          \* the site: its pages in order (input, never changes)
    cur,             \* index of the page the browser shows, 0 before the visit
    current_url,     \* driver.current_url, as the sequence of its parts
    subs_container,  \* the list object parse_submissions fills
    agg,             \* main's submissions_data dict, EmptyDict before it is made
    files,           \* the data directory: file name -> what was written
    parsed,          \* indices of the pages handed to _parse_submissions, in order
    clicks,          \* number of nxt.click() calls that returned
    faulted,         \* the bare except caught something other than a missing control
    failure,         \* the exception that ended the run, "" if none
    csvRuns,         \* the outcome of each write_to_csv call, in call order
    calls            \* number of exporter calls made so far

vars == <<pc, source, cur, current_url, subs_container, agg, files, parsed,
          clicks, faulted, failure, csvRuns, calls>>

JsonFile == "submissions_data.json"
CsvFile == "submissions_data.csv"

HasNextControl == cur < Len(source)

Init ==
    /\ pc = "deploy"
    /\ source \in Sources
    /\ cur = 0
    /\ current_url = <<>>
    /\ subs_container = <<>>
    /\ agg = EmptyDict
    /\ files = EmptyDict
    /\ parsed = <<>>
    /\ clicks = 0
    /\ faulted = FALSE
    /\ failure = ""
    /\ csvRuns = <<>>
    /\ calls = 0

Raise(exception) ==
    /\ pc' = "failed"
    /\ failure' = exception

(***************************************************************************)
(* main: deploy_firefox and visit_main_page.                               *)
(***************************************************************************)
DeployFirefox ==
    /\ pc = "deploy"
    /\ pc' = "visit"
    /\ UNCHANGED <<source, cur, current_url, subs_container, agg, files, parsed,
                   clicks, faulted, failure, csvRuns, calls>>

VisitMainPage ==
    /\ pc = "visit"
    /\ cur' = 1
    /\ current_url' = <<Origin, ListingPath>>
    /\ pc' = "parse"
    /\ UNCHANGED <<source, subs_container, agg, files, parsed, clicks, faulted,
                   failure, csvRuns, calls>>

\* one of the two WebDriverWait(driver, 20).until(...) calls times out
VisitTimeout ==
    /\ pc = "visit"
    /\ Raise("TimeoutException")
    /\ UNCHANGED <<source, cur, current_url, subs_container, agg, files, parsed,
                   clicks, faulted, csvRuns, calls>>

(***************************************************************************)
(* parse_submissions: the pagination loop.                                 *)
(***************************************************************************)
ParsePage ==
    /\ pc = "parse"
    /\ IF ParseRaises(source[cur])
       THEN /\ Raise("TypeError")
            /\ UNCHANGED <<subs_container, parsed>>
       ELSE /\ subs_container' =
                 Extend(subs_container, _parse_submissions(source[cur], current_url))
            /\ parsed' = Append(parsed, cur)
            /\ pc' = "next"
            /\ UNCHANGED failure
    /\ UNCHANGED <<source, cur, current_url, agg, files, clicks, faulted, csvRuns, calls>>

\* find_element finds the control and click() returns
NextClick ==
    /\ pc = "next"
    /\ HasNextControl
    /\ cur' = cur + 1
    /\ clicks' = clicks + 1
    /\ pc' = "wait"
    /\ UNCHANGED <<source, current_url, subs_container, agg, files, parsed,
                   faulted, failure, csvRuns, calls>>

\* find_element raises NoSuchElementException: except, break
NextAbsent ==
    /\ pc = "next"
    /\ ~HasNextControl
    /\ pc' = "return"
    /\ UNCHANGED <<source, cur, current_url, subs_container, agg, files, parsed,
                   clicks, faulted, failure, csvRuns, calls>>

\* find_element or click() raises anything else (the session is gone, the
\* control is covered or stale): the bare except catches it too, break
NextFault ==
    /\ pc = "next"
    /\ faulted' = TRUE
    /\ pc' = "return"
    /\ UNCHANGED <<source, cur, current_url, subs_container, agg, files, parsed,
                   clicks, failure, csvRuns, calls>>

\* the listing panel is present within 20 s; scroll, sleep, loop
WaitPresent ==
    /\ pc = "wait"
    /\ pc' = "parse"
    /\ UNCHANGED <<source, cur, current_url, subs_container, agg, files, parsed,
                   clicks, faulted, failure, csvRuns, calls>>

\* Fault injection: the timeout ends the loop like a missing control.
WaitTimeoutAsBreak ==
    /\ pc = "wait"
    /\ pc' = "return"
    /\ UNCHANGED <<source, cur, current_url, subs_container, agg, files, parsed,
                   clicks, faulted, failure, csvRuns, calls>>

\* WebDriverWait(driver, 20).until(...) raises TimeoutException, outside the try
WaitTimeout ==
    /\ pc = "wait"
    /\ Raise("TimeoutException")
    /\ UNCHANGED <<source, cur, current_url, subs_container, agg, files, parsed,
                   clicks, faulted, csvRuns, calls>>

Return ==
    /\ pc = "return"
    /\ agg' = Aggregate(subs_container)
    /\ pc' = "json"
    /\ UNCHANGED <<source, cur, current_url, subs_container, files, parsed,
                   clicks, faulted, failure, csvRuns, calls>>

(***************************************************************************)
(* write_to_json, write_to_csv; main's calls of them and kill_webdriver.   *)
(***************************************************************************)
\* json.dump(submissions_data, f): the document mirrors the dict
write_to_json(next_pc) ==
    /\ files' = (JsonFile :> agg) @@ files
    /\ calls' = calls + 1
    /\ pc' = next_pc
    /\ UNCHANGED <<source, cur, current_url, subs_container, agg, parsed, clicks,
                   faulted, failure, csvRuns>>

\* pop raises KeyError on a dict without the key; else the rows are written,
\* the dict has lost the key and the sub-item dicts of the list have gained one
write_to_csv(next_pc) ==
    /\ calls' = calls + 1
    /\ IF CsvRaises(agg)
       THEN /\ Raise("KeyError")
            /\ csvRuns' = Append(csvRuns, [raised |-> "KeyError", rows |-> <<>>])
            /\ UNCHANGED <<agg, subs_container, files>>
       ELSE /\ files' = (CsvFile :> CsvRows(agg)) @@ files
            /\ csvRuns' = Append(csvRuns, [raised |-> "", rows |-> CsvRows(agg)])
            /\ agg' = Pop(agg, "submissions_data")
            /\ subs_container' = CsvListAfter(agg["submissions_data"])
            /\ pc' = next_pc
            /\ UNCHANGED failure
    /\ UNCHANGED <<source, cur, current_url, parsed, clicks, faulted>>

\* os.mkdir("data") if needed, then write_to_json
WriteJson ==
    /\ pc = "json"
    /\ write_to_json("csv")

WriteCsv ==
    /\ pc = "csv"
    /\ write_to_csv("kill")

KillWebdriver ==
    /\ pc = "kill"
    /\ pc' = "done"
    /\ UNCHANGED <<source, cur, current_url, subs_container, agg, files, parsed,
                   clicks, faulted, failure, csvRuns, calls>>

Next ==
    \/ DeployFirefox
    \/ VisitMainPage
    \/ VisitTimeout
    \/ ParsePage
    \/ NextClick
    \/ NextAbsent
    \/ NextFault
    \/ WaitPresent
    \/ WaitTimeout
    \/ Return
    \/ WriteJson
    \/ WriteCsv
    \/ KillWebdriver

Spec == Init /\ [][Next]_vars

(***************************************************************************)
(* The exporters on their own: any sequence of at most MaxCalls calls of   *)
(* write_to_json and write_to_csv on one aggregate that parse_submissions  *)
(* returned.                                                               *)
(***************************************************************************)
ParseAll(src) ==
    Flatten([n \in DOMAIN src |-> _parse_submissions(src[n], <<Origin, ListingPath>>)])

ExportInit ==
    /\ pc = "export"
    /\ source \in {src \in Sources : \A n \in DOMAIN src : ~ParseRaises(src[n])}
    /\ cur = Len(source)
    /\ current_url = <<Origin, ListingPath>>
    /\ subs_container = ParseAll(source)
    /\ agg = Aggregate(subs_container)
    /\ files = EmptyDict
    /\ parsed = [n \in DOMAIN source |-> n]
    /\ clicks = Len(source) - 1
    /\ faulted = FALSE
    /\ failure = ""
    /\ csvRuns = <<>>
    /\ calls = 0

ExportJson ==
    /\ pc = "export"
    /\ calls < MaxCalls
    /\ write_to_json("export")

ExportCsv ==
    /\ pc = "export"
    /\ calls < MaxCalls
    /\ write_to_csv("export")

ExportNext == ExportJson \/ ExportCsv

ExportSpec == ExportInit /\ [][ExportNext]_vars

(***************************************************************************)
(* Properties.                                                             *)
(***************************************************************************)
RECURSIVE SumLen(_)
SumLen(ss) == IF ss = <<>> THEN 0 ELSE Len(Head(ss)) + SumLen(Tail(ss))

\* the grid cells of the pages parsed so far, in parse order
ParsedGrids == Flatten([n \in DOMAIN parsed |-> source[parsed[n]]])

SubItemCount(rec) ==
    SumLen([e \in DOMAIN rec["submissions"] |-> rec["submissions"][e].value])

\* the (category, sub-item) pairs of a record sequence, in export order
Pairs(recs) ==
    Flatten([n \in DOMAIN recs |->
      Flatten([e \in DOMAIN recs[n]["submissions"] |->
        [i \in DOMAIN recs[n]["submissions"][e].value |->
           [category |-> recs[n]["submissions"][e].key,
            item |-> recs[n]["submissions"][e].value[i]]]])])

Exported == JsonFile \in DOMAIN files /\ CsvFile \in DOMAIN files

SubItemKeys ==
    {"submission_name", "submission_entity", "submission_language",
     "submission_date", "submission_url"}

\* C1: on a source of N pages whose waits succeed (and whose next-page control
\* is found and clicked without a fault), pages are parsed once each, in order
\* and before the click that leaves them; parse_submissions makes N-1 clicks
\* and returns the records of the pages concatenated in page order.
C1_PagesParsedOnceInOrder ==
    /\ parsed = [n \in 1..Len(parsed) |-> n]
    /\ pc = "wait" => Len(parsed) = cur - 1 /\ clicks = cur - 1
    /\ (pc = "json" /\ ~faulted) =>
          /\ Len(parsed) = Len(source)
          /\ clicks = Len(source) - 1
          /\ agg["submissions_data"] = ParseAll(source)

C1_Witness ==
    /\ pc = "json" /\ ~faulted
    /\ Len(source) = 2 /\ Len(source[1]) = 2 /\ Len(source[2]) = 1
    /\ clicks = 1
    /\ Len(agg["submissions_data"]) = 3
    /\ agg["submissions_data"][1] # agg["submissions_data"][3]

\* C2: the loop ends only on a page without the next-page control, so whenever
\* an output file exists the aggregate holds the records of every page.
C2_CompleteOrAbort ==
    /\ pc = "return" => ~HasNextControl
    /\ JsonFile \in DOMAIN files =>
          files[JsonFile]["submissions_data"] = ParseAll(source)

\* C3: a wait that times out after a click never leads on to the return of
\* parse_submissions: the run fails with TimeoutException, and a run that
\* failed so has written no file.
C3_WaitTimeoutIsFatal ==
    /\ [][pc = "wait" => pc' \in {"parse", "failed"}]_vars
    /\ [](failure = "TimeoutException" => pc = "failed" /\ files = EmptyDict)

C3_Witness ==
    /\ failure = "TimeoutException"
    /\ clicks >= 1
    /\ Len(subs_container) >= 1
    /\ pc = "failed"
    /\ files = EmptyDict

\* C4: every key of every record's submissions mapping is an allowed entity
\* type, a record holds only what the allowed sections of its grid cell hold,
\* and no other category shows in the nested or in the flat export.
C4_OnlyRelevantCategories ==
    /\ Len(subs_container) = Len(ParsedGrids)
    /\ \A n \in DOMAIN subs_container :
         LET subs == subs_container[n]["submissions"]
             secs == ParsedGrids[n].sections
         IN  /\ Keys(subs) \subseteq RELEVANT_ENTITY_TYPES
             /\ \A e \in DOMAIN subs :
                  \E k \in DOMAIN secs :
                     /\ secs[k].entitytype = subs[e].key
                     /\ Len(secs[k].rows) = Len(subs[e].value)
             /\ SubItemCount(subs_container[n]) =
                  SumLen([k \in DOMAIN secs |->
                            IF secs[k].entitytype \in RELEVANT_ENTITY_TYPES
                            THEN secs[k].rows ELSE <<>>])
    /\ JsonFile \in DOMAIN files =>
         \A n \in DOMAIN files[JsonFile]["submissions_data"] :
            Keys(files[JsonFile]["submissions_data"][n]["submissions"])
               \subseteq RELEVANT_ENTITY_TYPES
    /\ CsvFile \in DOMAIN files =>
         \A r \in DOMAIN files[CsvFile] :
            files[CsvFile][r]["entity_type"] \in RELEVANT_ENTITY_TYPES

C4_Witness ==
    /\ pc = "done"
    /\ \E k \in DOMAIN source[1][1].sections :
          /\ source[1][1].sections[k].entitytype = "Internal"
          /\ Len(source[1][1].sections[k].rows) = MaxRows
    /\ Len(files[CsvFile]) >= 1
    /\ Keys(files[JsonFile]["submissions_data"][1]["submissions"]) = {"Party"}

\* C5: every row of a kept section becomes a sub-item whose submission_url is
\* a string, with or without a fileref attribute on the row.
C5_UrlAlwaysString ==
    /\ failure # "TypeError"
    /\ \A n \in DOMAIN subs_container :
         \A e \in DOMAIN subs_container[n]["submissions"] :
           \A i \in DOMAIN subs_container[n]["submissions"][e].value :
              subs_container[n]["submissions"][e].value[i]["submission_url"] # None

\* C6: every call of write_to_csv on one aggregate returns, and with the same
\* rows as every other call on it.
C6_FlattenTwiceSame ==
    \A i, j \in DOMAIN csvRuns :
       csvRuns[i].raised = "" /\ csvRuns[i].rows = csvRuns[j].rows

\* C7: the flat export has one row per sub-item of the nested export, in the
\* same order, carrying the sub-item's fields and its category as entity_type.
C7_OneRowPerSubItem ==
    Exported =>
       LET pairs == Pairs(files[JsonFile]["submissions_data"])
           rows == files[CsvFile]
       IN  /\ Len(rows) = Len(pairs)
           /\ \A r \in DOMAIN rows :
                /\ rows[r]["entity_type"] = pairs[r].category
                /\ \A k \in SubItemKeys : rows[r][k] = pairs[r].item[k]

C7_Witness ==
    /\ pc = "done"
    /\ Len(files[CsvFile]) >= 3
    /\ \E a, b \in DOMAIN files[CsvFile] :
          files[CsvFile][a]["entity_type"] # files[CsvFile][b]["entity_type"]

\* C8: a record without sub-items (no category, or only empty categories) is
\* in the nested export and adds no row to the flat export: the rows are as
\* many as the sub-items, and each carries a sub-item's fields.
C8_EmptyRecordsGiveNoRows ==
    Exported =>
       LET recs == files[JsonFile]["submissions_data"]
           rows == files[CsvFile]
       IN  /\ Len(recs) = Len(ParsedGrids)
           /\ Len(rows) = SumLen([n \in DOMAIN recs |->
                                    [i \in 1..SubItemCount(recs[n]) |-> i]])
           /\ (\A n \in DOMAIN recs : SubItemCount(recs[n]) = 0) => rows = <<>>
           /\ \A r \in DOMAIN rows :
                SubItemKeys \cup {"entity_type"} \subseteq DOMAIN rows[r]

C8_Witness ==
    /\ pc = "done"
    /\ Len(files[JsonFile]["submissions_data"]) = 1
    /\ Keys(files[JsonFile]["submissions_data"][1]["submissions"]) = {"Party", "NGO"}
    /\ SubItemCount(files[JsonFile]["submissions_data"][1]) = 0
    /\ files[CsvFile] = <<>>

C8_WitnessEmptyMapping ==
    /\ pc = "done"
    /\ Len(files[JsonFile]["submissions_data"]) = 2
    /\ files[JsonFile]["submissions_data"][1]["submissions"] = <<>>
    /\ Len(files[CsvFile]) = 2

\* C9: a call of an exporter leaves the aggregate, its records and their
\* sub-items as they were.
C9_ExportersReadOnly ==
    [][(pc = "json" \/ pc = "csv") => (agg' = agg /\ subs_container' = subs_container)]_vars

\* C10: a record has a key for exactly the allowed categories that have a
\* section in its grid cell, mapped to as many sub-items as the section has
\* rows (none for a section without rows); a single record with Party (one
\* row) and NGO (no row) is exported nested with both keys and flat as one
\* row of entity_type Party.
C10_EmptyCategoryKept ==
    /\ Len(subs_container) = Len(ParsedGrids)
    /\ \A n \in DOMAIN subs_container :
         LET subs == subs_container[n]["submissions"]
             secs == ParsedGrids[n].sections
         IN  /\ Keys(subs) =
                  {secs[k].entitytype : k \in DOMAIN secs} \cap RELEVANT_ENTITY_TYPES
             /\ \A k \in DOMAIN secs :
                  secs[k].entitytype \in RELEVANT_ENTITY_TYPES =>
                     Len(DictGet(subs, secs[k].entitytype)) = Len(secs[k].rows)
    /\ (/\ Exported
        /\ Len(source) = 1 /\ Len(source[1]) = 1
        /\ Len(source[1][1].sections) = 2
        /\ source[1][1].sections[1].entitytype = "Party"
        /\ Len(source[1][1].sections[1].rows) = 1
        /\ source[1][1].sections[2].entitytype = "NGO"
        /\ source[1][1].sections[2].rows = <<>>)
       => LET recs == files[JsonFile]["submissions_data"]
          IN  /\ Len(recs) = 1
              /\ Keys(recs[1]["submissions"]) = {"Party", "NGO"}
              /\ Len(DictGet(recs[1]["submissions"], "Party")) = 1
              /\ DictGet(recs[1]["submissions"], "NGO") = <<>>
              /\ Len(files[CsvFile]) = 1
              /\ files[CsvFile][1]["entity_type"] = "Party"

C10_Witness ==
    /\ pc = "done"
    /\ Len(source) = 1 /\ Len(source[1]) = 1
    /\ Len(source[1][1].sections) = 2
    /\ source[1][1].sections[1].entitytype = "Party"
    /\ Len(source[1][1].sections[1].rows) = 1
    /\ source[1][1].sections[2].entitytype = "NGO"
    /\ source[1][1].sections[2].rows = <<>>
    /\ Len(files[CsvFile]) = 1

====
